---------------------------- MODULE Spec2Model ----------------------------
(***************************************************************************)
(* Model of prody/dynamics/mode.py: the VectorBase algebra shared by Mode  *)
(* (a view on one column of an NMA model's eigenvector matrix) and Vector  *)
(* (a free-standing titled 1-D array with a 3-d flag).                     *)
(*                                                                         *)
(* A state is a Python session: the NMA models, the Mode and Vector        *)
(* objects the caller keeps, the arrays handed out by Vector.getArray(),   *)
(* and the outcome of the last call, which is the value returned or the    *)
(* exception raised.                                                       *)
(*                                                                         *)
(* Arrays are 1-D integer ndarrays, written as sequences of their entries. *)
(***************************************************************************)
EXTENDS Integers, Sequences, FiniteSets, TLC

VARIABLES models, modes, vectors, held, last

vars == <<models, modes, vectors, held, last>>

-----------------------------------------------------------------------------
(* Bounds of the session. *)

\* Vector objects the caller keeps at once.
MaxVecs == 1
\* Mode objects the caller keeps at once.
MaxModes == 1
\* Largest index a Mode is constructed with (each model has 2 modes, so 2
\* and above are out of range).
MaxIndex == 2
\* Arrays obtained from getArray() that the caller keeps.
MaxHeld == 1

-----------------------------------------------------------------------------
(* The owning models: the external collaborator of Mode (NMA, GNM, PCA). *)

\* Unit column of length n with a 1 at position p.
Unit(n, p) == [i \in 1..n |-> IF i = p THEN 1 ELSE 0]

ModelIds == {"anm", "gnm"}

\* "anm": 3-d, 4 atoms, 12 degrees of freedom, 2 modes e0, e1, eigenvalues
\* 2 and 5.  "gnm": not 3-d, 3 atoms, 3 degrees of freedom, 2 modes.
\* _array is kept as the sequence of its columns.
InitModels ==
    [m \in ModelIds |->
        IF m = "anm"
        THEN [is3d |-> TRUE, natoms |-> 4, dof |-> 12, title |-> "anm",
              array |-> <<Unit(12, 1), Unit(12, 2)>>,
              eigvals |-> <<2, 5>>, vars |-> <<3, 1>>]
        ELSE [is3d |-> FALSE, natoms |-> 3, dof |-> 3, title |-> "gnm",
              array |-> <<Unit(3, 1), <<1, 1, 0>> >>,
              eigvals |-> <<1, 4>>, vars |-> <<4, 1>>]]

\* model.numDOF(), model.numAtoms(), model.is3d(), str(model)
ModelNumDOF(m) == models[m].dof
ModelNumAtoms(m) == models[m].natoms
ModelIs3d(m) == models[m].is3d
ModelStr(m) == models[m].title

-----------------------------------------------------------------------------
(* Python values: objects, operands and arguments. *)

\* A Mode object (its two slots) and a Vector object (its three slots).
ModeObj(model, index) == [t |-> "Mode", model |-> model, index |-> index]
VectorObj(title, array, is3d) ==
    [t |-> "Vector", title |-> title, array |-> array, is3d |-> is3d]

Scalars == {2}
\* Exponents and divisors that integer arrays take without a numpy error or
\* warning.
Exponents == {x \in Scalars : x >= 0}
Divisors == {x \in Scalars : x > 0}

ScalarOperand(x) == [t |-> "scalar", v |-> x]
NoneOperand == [t |-> "None"]

\* The objects the caller keeps, and what it may pass as `other`.
Objects == {modes[k] : k \in 1..Len(modes)}
               \cup {vectors[k] : k \in 1..Len(vectors)}
NonObjects == {ScalarOperand(x) : x \in Scalars} \cup {NoneOperand}
Operands == Objects \cup NonObjects

\* Array-likes passed to Vector(...): nested Python lists and a bare number,
\* with the ndim and shape numpy.array() gives them.
Seq12 == [i \in 1..12 |-> IF i = 1 THEN 1 ELSE 0]
ArrayLikes ==
    { [ndim |-> 1, shape |-> <<2>>, data |-> <<1, 2>>],
      [ndim |-> 1, shape |-> <<3>>, data |-> <<1, 2, 3>>],
      [ndim |-> 1, shape |-> <<12>>, data |-> Seq12],
      [ndim |-> 2, shape |-> <<1, 3>>, data |-> <<1, 2, 3>>],
      [ndim |-> 0, shape |-> <<>>, data |-> <<5>>] }

\* A 1-D ndarray with the given entries.
NdArray1(data) == [ndim |-> 1, shape |-> <<Len(data)>>, data |-> data]

\* Titles passed by the caller: the constructor's default string, and a
\* number that str() formats.
CtorTitles == {[t |-> "str", v |-> "Unknown"]}
SetTitles == {[t |-> "scalar", v |-> 7]}

-----------------------------------------------------------------------------
(* Outcomes of a call. *)

Errors == {"TypeError", "ValueError", "IndexError", "NameError"}
Raise(e) == [kind |-> e, val |-> 0]
Ok(k, v) == [kind |-> k, val |-> v]
IsErr(r) == r.kind \in Errors

-----------------------------------------------------------------------------
(* class Mode *)

\* The eager variant of Mode.__init__: it refuses an index the model has no
\* column for.
ModeInit_Eager(model, index) ==
    IF index < Len(models[model].array)
    THEN Ok("Mode", ModeObj(model, index))
    ELSE Raise("IndexError")

\* Mode.__init__(model, index): stores both, the index through int().
ModeInit(model, index) == Ok("Mode", ModeObj(model, index))

\* Mode.__len__
ModeLen(self) == ModelNumDOF(self.model)

\* Mode.__str__ : 'Mode {0} from {1}'.format(index + 1, str(model))
ModeStr(self) ==
    "Mode " \o ToString(self.index + 1) \o " from " \o ModelStr(self.model)

\* Mode.__int__
ModeInt(self) == self.index

\* Mode.is3d, Mode.numAtoms
ModeIs3d(self) == ModelIs3d(self.model)
ModeNumAtoms(self) == ModelNumAtoms(self.model)

\* Mode._getArray : model._array[:, index], the live column; numpy raises
\* IndexError for an index past the last column.
ModeGetArrayLive(self) ==
    IF self.index < Len(models[self.model].array)
    THEN Ok("array", models[self.model].array[self.index + 1])
    ELSE Raise("IndexError")

\* Mode.getArray : model._array[:, index].copy()
ModeGetArray(self) ==
    IF self.index < Len(models[self.model].array)
    THEN Ok("array", models[self.model].array[self.index + 1])
    ELSE Raise("IndexError")

\* Mode.getEigval : model._eigvals[index]
ModeGetEigval(self) ==
    IF self.index < Len(models[self.model].eigvals)
    THEN Ok("scalar", models[self.model].eigvals[self.index + 1])
    ELSE Raise("IndexError")

\* Mode.__float__
ModeFloat(self) == ModeGetEigval(self)

\* Mode.getVariance : model._vars[index]
ModeGetVariance(self) ==
    IF self.index < Len(models[self.model].vars)
    THEN Ok("scalar", models[self.model].vars[self.index + 1])
    ELSE Raise("IndexError")

-----------------------------------------------------------------------------
(* class Vector *)

\* str() of a title argument.
TitleStr(a) == IF a.t = "str" THEN a.v ELSE ToString(a.v)

\* Vector.__init__ without the multiple-of-3 check.
VectorInit_NoCheck3(array, title, is3d) ==
    IF array.ndim # 1
    THEN Raise("ValueError")
    ELSE Ok("Vector", VectorObj(title, array.data, is3d))

\* Vector.__init__(array, title, is3d); `array` is already an ndarray or
\* has been made one by numpy.array(), `title` is str(title).
VectorInit(array, title, is3d) ==
    IF array.ndim # 1
    THEN Raise("ValueError")
    ELSE IF is3d /\ array.shape[1] % 3 # 0
    THEN Raise("ValueError")
    ELSE Ok("Vector", VectorObj(title, array.data, is3d))

\* Vector.__len__, Vector.__str__, Vector.is3d, Vector._getArray
VecLen(self) == Len(self.array)
VecStr(self) == self.title
VecIs3d(self) == self.is3d
VecGetArrayLive(self) == Ok("array", self.array)

\* Vector.numAtoms returning the length whatever the flag.
VecNumAtoms_NoDiv(self) == Len(self.array)

\* Vector.numAtoms : len(array)/3 (Python 2 integer division) when 3-d.
VecNumAtoms(self) ==
    IF self.is3d THEN Len(self.array) \div 3 ELSE Len(self.array)

\* Vector.getArray handing out the live array instead of a copy.
VecGetArray_Live(k) == [own |-> FALSE, vec |-> k, data |-> <<>>]

\* Vector.getArray of the k-th kept vector: self._array.copy().  A
\* handed-out array is storage of its own (a copy) or the storage of the
\* vector `vec`.
VecGetArray(k) == [own |-> TRUE, vec |-> k, data |-> vectors[k].array]

\* Vector.setTitle : the title becomes str(title), nothing else changes.
VecSetTitle(self, title) == [self EXCEPT !.title = TitleStr(title)]

\* The entries a handed-out array shows.
HeldData(h) == IF h.own THEN h.data ELSE vectors[h.vec].array

-----------------------------------------------------------------------------
(* Dispatch on the class of an object. *)

\* isinstance(o, VectorBase)
IsVectorBase(o) == o.t \in {"Mode", "Vector"}
\* o._getArray exists (no AttributeError)
HasGetArray(o) == o.t \in {"Mode", "Vector"}
IsScalar(o) == o.t = "scalar"

PyLen(o) == IF o.t = "Mode" THEN ModeLen(o) ELSE VecLen(o)
Is3d(o) == IF o.t = "Mode" THEN ModeIs3d(o) ELSE VecIs3d(o)
GetArrayLive(o) ==
    IF o.t = "Mode" THEN ModeGetArrayLive(o) ELSE VecGetArrayLive(o)

\* str(x) / '{0}'.format(x)
Str(o) ==
    CASE o.t = "Mode" -> ModeStr(o)
      [] o.t = "Vector" -> VecStr(o)
      [] o.t = "scalar" -> ToString(o.v)
      [] o.t = "None" -> "None"

-----------------------------------------------------------------------------
(* numpy arithmetic on 1-D arrays of equal length. *)

ArrNeg(a) == [i \in 1..Len(a) |-> 0 - a[i]]
ArrAdd(a, b) == [i \in 1..Len(a) |-> a[i] + b[i]]
ArrSub(a, b) == [i \in 1..Len(a) |-> a[i] - b[i]]
ArrScale(c, a) == [i \in 1..Len(a) |-> c * a[i]]
\* integer arrays: / is floor division
ArrDiv(a, c) == [i \in 1..Len(a) |-> a[i] \div c]

RECURSIVE IntPow(_, _)
IntPow(b, e) == IF e = 0 THEN 1 ELSE b * IntPow(b, e - 1)
ArrPow(a, e) == [i \in 1..Len(a) |-> IntPow(a[i], e)]

RECURSIVE SumTo(_, _, _)
SumTo(a, b, n) == IF n = 0 THEN 0 ELSE a[n] * b[n] + SumTo(a, b, n - 1)
\* numpy.dot of two 1-D arrays of the same length
Dot(a, b) == SumTo(a, b, Len(a))

-----------------------------------------------------------------------------
(* class VectorBase: the shared operators.  `self` is a Mode or a Vector,   *)
(* `other` any operand.  Each returns the outcome of the call:              *)
(* Ok("Vector", the Vector constructed), Ok("scalar", number) or the        *)
(* exception raised.                                                        *)

\* VectorBase.__neg__
Neg(self) ==
    LET a == GetArrayLive(self) IN
    IF IsErr(a) THEN a
    ELSE VectorInit(NdArray1(ArrNeg(a.val)), "-(" \o Str(self) \o ")",
                    Is3d(self))

\* VectorBase.__div__ : any exception of the division becomes a TypeError.
\* `other` is a number or None.
Div(self, other) ==
    LET a == GetArrayLive(self) IN
    IF IsErr(a) \/ ~IsScalar(other) THEN Raise("TypeError")
    ELSE VectorInit(NdArray1(ArrDiv(a.val, other.v)),
                    "(" \o Str(self) \o ")/" \o Str(other), Is3d(self))

\* VectorBase.__mul__
\*   other._getArray() succeeds: numpy.dot; its failure is caught by a
\*     handler that formats the unbound name `err`, which raises NameError
\*     (UnboundLocalError).  An IndexError of other._getArray() itself is
\*     not an AttributeError and propagates.
\*   AttributeError: other * self._getArray(); any failure is a TypeError.
Mul(self, other) ==
    IF HasGetArray(other)
    THEN LET o == GetArrayLive(other)
             a == GetArrayLive(self) IN
         IF IsErr(o) THEN o
         ELSE IF IsErr(a) \/ Len(a.val) # Len(o.val) THEN Raise("NameError")
         ELSE Ok("scalar", Dot(a.val, o.val))
    ELSE LET a == GetArrayLive(self) IN
         IF IsErr(a) \/ ~IsScalar(other) THEN Raise("TypeError")
         ELSE VectorInit(NdArray1(ArrScale(other.v, a.val)),
                         "(" \o Str(self) \o ")*" \o Str(other), Is3d(self))

\* __rmul__ scaling by the square of the operand.
RMul_Square(self, other) ==
    IF HasGetArray(other)
    THEN LET o == GetArrayLive(other)
             a == GetArrayLive(self) IN
         IF IsErr(o) THEN o
         ELSE IF IsErr(a) \/ Len(a.val) # Len(o.val) THEN Raise("NameError")
         ELSE Ok("scalar", Dot(a.val, o.val))
    ELSE LET a == GetArrayLive(self) IN
         IF IsErr(a) \/ ~IsScalar(other) THEN Raise("TypeError")
         ELSE VectorInit(NdArray1(ArrScale(other.v * other.v, a.val)),
                         Str(other) \o "*(" \o Str(self) \o ")", Is3d(self))

\* VectorBase.__rmul__ : as __mul__, the title written the other way round.
RMul(self, other) ==
    IF HasGetArray(other)
    THEN LET o == GetArrayLive(other)
             a == GetArrayLive(self) IN
         IF IsErr(o) THEN o
         ELSE IF IsErr(a) \/ Len(a.val) # Len(o.val) THEN Raise("NameError")
         ELSE Ok("scalar", Dot(a.val, o.val))
    ELSE LET a == GetArrayLive(self) IN
         IF IsErr(a) \/ ~IsScalar(other) THEN Raise("TypeError")
         ELSE VectorInit(NdArray1(ArrScale(other.v, a.val)),
                         Str(other) \o "*(" \o Str(self) \o ")", Is3d(self))

\* VectorBase.__add__
Add(self, other) ==
    IF IsVectorBase(other)
    THEN IF PyLen(self) # PyLen(other) THEN Raise("ValueError")
         ELSE LET a == GetArrayLive(self)
                  b == GetArrayLive(other) IN
              IF IsErr(a) THEN a
              ELSE IF IsErr(b) THEN b
              ELSE VectorInit(NdArray1(ArrAdd(a.val, b.val)),
                              "(" \o Str(self) \o ") + (" \o Str(other) \o ")",
                              Is3d(self))
    ELSE Raise("TypeError")

\* VectorBase.__radd__ : other + self, titled with other first.
RAdd(self, other) ==
    IF IsVectorBase(other)
    THEN IF PyLen(self) # PyLen(other) THEN Raise("ValueError")
         ELSE LET a == GetArrayLive(self)
                  b == GetArrayLive(other) IN
              IF IsErr(a) THEN a
              ELSE IF IsErr(b) THEN b
              ELSE VectorInit(NdArray1(ArrAdd(a.val, b.val)),
                              "(" \o Str(other) \o ") + (" \o Str(self) \o ")",
                              Is3d(self))
    ELSE Raise("TypeError")

\* __sub__ subtracting the wrong way round.
Sub_Swapped(self, other) ==
    IF IsVectorBase(other)
    THEN IF PyLen(self) # PyLen(other) THEN Raise("ValueError")
         ELSE LET a == GetArrayLive(self)
                  b == GetArrayLive(other) IN
              IF IsErr(a) THEN a
              ELSE IF IsErr(b) THEN b
              ELSE VectorInit(NdArray1(ArrSub(b.val, a.val)),
                              "(" \o Str(self) \o ") - (" \o Str(other) \o ")",
                              Is3d(self))
    ELSE Raise("TypeError")

\* VectorBase.__sub__
Sub(self, other) ==
    IF IsVectorBase(other)
    THEN IF PyLen(self) # PyLen(other) THEN Raise("ValueError")
         ELSE LET a == GetArrayLive(self)
                  b == GetArrayLive(other) IN
              IF IsErr(a) THEN a
              ELSE IF IsErr(b) THEN b
              ELSE VectorInit(NdArray1(ArrSub(a.val, b.val)),
                              "(" \o Str(self) \o ") - (" \o Str(other) \o ")",
                              Is3d(self))
    ELSE Raise("TypeError")

\* __rsub__ taking the 3-d flag of other instead of self.
RSub_FlagOfOther(self, other) ==
    IF IsVectorBase(other)
    THEN IF PyLen(self) # PyLen(other) THEN Raise("ValueError")
         ELSE LET a == GetArrayLive(self)
                  b == GetArrayLive(other) IN
              IF IsErr(b) THEN b
              ELSE IF IsErr(a) THEN a
              ELSE VectorInit(NdArray1(ArrSub(b.val, a.val)),
                              "(" \o Str(other) \o ") - (" \o Str(self) \o ")",
                              Is3d(other))
    ELSE Raise("TypeError")

\* VectorBase.__rsub__ : other - self
RSub(self, other) ==
    IF IsVectorBase(other)
    THEN IF PyLen(self) # PyLen(other) THEN Raise("ValueError")
         ELSE LET a == GetArrayLive(self)
                  b == GetArrayLive(other) IN
              IF IsErr(b) THEN b
              ELSE IF IsErr(a) THEN a
              ELSE VectorInit(NdArray1(ArrSub(b.val, a.val)),
                              "(" \o Str(other) \o ") - (" \o Str(self) \o ")",
                              Is3d(self))
    ELSE Raise("TypeError")

\* VectorBase.__pow__ : the handler names `Exceptions`, which is not
\* defined, so any failure of the exponentiation raises NameError.
\* `other` is a number or None.
Pow(self, other) ==
    LET a == GetArrayLive(self) IN
    IF IsErr(a) \/ ~IsScalar(other) THEN Raise("NameError")
    ELSE VectorInit(NdArray1(ArrPow(a.val, other.v)),
                    "(" \o Str(self) \o ")**" \o Str(other), Is3d(self))

\* An in-place operator that writes the sum into self's own storage and
\* returns self, as an augmented assignment may.
IAdd_InPlace(self, other) ==
    IF Add(self, other).kind = "Vector"
    THEN Ok("Self", Add(self, other).val.array)
    ELSE Add(self, other)

\* VectorBase.__iadd__, __isub__, __imul__, __idiv__ : the plain operator.
IAdd(self, other) == Add(self, other)
ISub(self, other) == Sub(self, other)
IMul(self, other) == Mul(self, other)
IDiv(self, other) == Div(self, other)

-----------------------------------------------------------------------------
(* The session. *)

NoCall == [op |-> "start", self |-> NoneOperand, other |-> NoneOperand,
           kind |-> "None", val |-> 0]

Init ==
    /\ models = InitModels
    /\ modes = <<>>
    /\ vectors = <<>>
    /\ held = <<>>
    /\ last = NoCall

\* m = Mode(model, index)
NewMode(m, i) ==
    /\ Len(modes) < MaxModes
    /\ modes' = IF ModeInit(m, i).kind = "Mode"
                THEN Append(modes, ModeInit(m, i).val) ELSE modes
    /\ last' = [op |-> "Mode", self |-> NoneOperand,
                other |-> [t |-> "args", model |-> m, index |-> i],
                kind |-> ModeInit(m, i).kind, val |-> ModeInit(m, i).val]
    /\ UNCHANGED <<models, vectors, held>>

\* The caller receives the outcome `res` of calling `op`; it binds the
\* Vectors returned to names (they join the kept vectors) while it has
\* names left.
Return(op, self, other, res) ==
    /\ vectors' = IF res.kind = "Vector" /\ Len(vectors) < MaxVecs
                  THEN Append(vectors, res.val) ELSE vectors
    /\ last' = [op |-> op, self |-> self, other |-> other,
                kind |-> res.kind, val |-> res.val]
    /\ UNCHANGED <<models, modes, held>>

\* Vector(array, title, is3d); the array-like goes through numpy.array(),
\* the title through str(), the flag through bool().
NewVector(a, title, f) ==
    Return("Vector", NoneOperand,
           [t |-> "args", array |-> a, title |-> title, is3d |-> f],
           VectorInit(a, TitleStr(title), f))

\* References to the kept objects, for the statements that rebind a name.
ObjRefs == ({"Mode"} \X (1..Len(modes))) \cup ({"Vector"} \X (1..Len(vectors)))
Deref(r) == IF r[1] = "Mode" THEN modes[r[2]] ELSE vectors[r[2]]

\* An augmented assignment x op= other, x being the object r refers to: as
\* Return, and an operator that wrote its result into the storage of self
\* and returned self leaves the name bound to self.
ReturnInPlace(op, r, other, res) ==
    IF res.kind = "Self"
    THEN /\ IF r[1] = "Vector"
            THEN /\ vectors' = [vectors EXCEPT ![r[2]].array = res.val]
                 /\ UNCHANGED models
            ELSE /\ models' = [models EXCEPT
                       ![modes[r[2]].model].array[modes[r[2]].index + 1]
                           = res.val]
                 /\ UNCHANGED vectors
         /\ last' = [op |-> op, self |-> Deref(r), other |-> other,
                     kind |-> r[1], val |-> Deref(r)]
         /\ UNCHANGED <<modes, held>>
    ELSE Return(op, Deref(r), other, res)

CallNeg(self) == Return("neg", self, NoneOperand, Neg(self))
CallDiv(self, other) ==
    Return("div", self, other, Div(self, other))
CallMul(self, other) ==
    Return("mul", self, other, Mul(self, other))
CallRMul(self, other) ==
    Return("rmul", self, other, RMul(self, other))
CallAdd(self, other) ==
    Return("add", self, other, Add(self, other))
CallRAdd(self, other) ==
    Return("radd", self, other, RAdd(self, other))
CallSub(self, other) ==
    Return("sub", self, other, Sub(self, other))
CallRSub(self, other) ==
    Return("rsub", self, other, RSub(self, other))
CallPow(self, other) ==
    Return("pow", self, other, Pow(self, other))
CallIAdd(r, other) ==
    ReturnInPlace("iadd", r, other, IAdd(Deref(r), other))
CallISub(r, other) ==
    ReturnInPlace("isub", r, other, ISub(Deref(r), other))
CallIMul(r, other) ==
    ReturnInPlace("imul", r, other, IMul(Deref(r), other))
CallIDiv(r, other) ==
    ReturnInPlace("idiv", r, other, IDiv(Deref(r), other))

\* A call that only reads.
Query(op, self, res) ==
    /\ last' = [op |-> op, self |-> self, other |-> NoneOperand,
                kind |-> res.kind, val |-> res.val]
    /\ UNCHANGED <<models, modes, vectors, held>>

CallModeLen(self) == Query("len", self, Ok("scalar", ModeLen(self)))
CallModeStr(self) == Query("str", self, Ok("str", ModeStr(self)))
CallModeInt(self) == Query("int", self, Ok("scalar", ModeInt(self)))
CallModeFloat(self) == Query("float", self, ModeFloat(self))
CallModeIs3d(self) == Query("is3d", self, Ok("bool", ModeIs3d(self)))
CallModeNumAtoms(self) ==
    Query("numAtoms", self, Ok("scalar", ModeNumAtoms(self)))
CallModeGetArray(self) == Query("getArray", self, ModeGetArray(self))
CallModeGetEigval(self) == Query("getEigval", self, ModeGetEigval(self))
CallModeGetVariance(self) ==
    Query("getVariance", self, ModeGetVariance(self))

CallVecNumAtoms(self) ==
    Query("numAtoms", self, Ok("scalar", VecNumAtoms(self)))

\* v.setTitle(title), v the k-th kept vector
CallVecSetTitle(k, title) ==
    /\ vectors' = [vectors EXCEPT ![k] = VecSetTitle(vectors[k], title)]
    /\ last' = [op |-> "setTitle", self |-> vectors[k], other |-> title,
                kind |-> "None", val |-> 0]
    /\ UNCHANGED <<models, modes, held>>

\* a = v.getArray(): the caller keeps what was returned.
CallVecGetArray(k) ==
    /\ Len(held) < MaxHeld
    /\ held' = Append(held, VecGetArray(k))
    /\ last' = [op |-> "getArray", self |-> vectors[k],
                other |-> NoneOperand, kind |-> "array",
                val |-> HeldData(VecGetArray(k))]
    /\ UNCHANGED <<models, modes, vectors>>

\* a[0] = x on an array the caller got from getArray(): the write lands in
\* the storage the array refers to.
ModifyHeld(h, x) ==
    /\ Len(HeldData(held[h])) > 0
    /\ HeldData(held[h])[1] # x
    /\ IF held[h].own
       THEN /\ held' = [held EXCEPT ![h].data[1] = x]
            /\ UNCHANGED vectors
       ELSE /\ vectors' = [vectors EXCEPT ![held[h].vec].array[1] = x]
            /\ UNCHANGED held
    /\ last' = [op |-> "setitem", self |-> vectors[held[h].vec],
                other |-> ScalarOperand(x), kind |-> "None", val |-> 0]
    /\ UNCHANGED <<models, modes>>

\* The values the caller writes into an array it holds.
Written == {9}

Next ==
    \/ \E m \in ModelIds, i \in 0..MaxIndex : NewMode(m, i)
    \/ \E a \in ArrayLikes, t \in CtorTitles, f \in BOOLEAN :
          NewVector(a, t, f)
    \/ \E self \in Objects : CallNeg(self)
    \/ \E self \in Objects, x \in Divisors :
          CallDiv(self, ScalarOperand(x))
    \/ \E self \in Objects : CallDiv(self, NoneOperand)
    \/ \E self \in Objects, other \in Operands :
          CallMul(self, other)
    \/ \E self \in Objects, other \in Operands :
          CallRMul(self, other)
    \/ \E self \in Objects, other \in Operands :
          CallAdd(self, other)
    \/ \E self \in Objects, other \in Operands :
          CallRAdd(self, other)
    \/ \E self \in Objects, other \in Operands :
          CallSub(self, other)
    \/ \E self \in Objects, other \in Operands :
          CallRSub(self, other)
    \/ \E self \in Objects, x \in Exponents :
          CallPow(self, ScalarOperand(x))
    \/ \E self \in Objects : CallPow(self, NoneOperand)
    \/ \E r \in ObjRefs, other \in Operands :
          CallIAdd(r, other)
    \/ \E r \in ObjRefs, other \in Operands :
          CallISub(r, other)
    \/ \E r \in ObjRefs, other \in Operands :
          CallIMul(r, other)
    \/ \E r \in ObjRefs, x \in Divisors :
          CallIDiv(r, ScalarOperand(x))
    \/ \E r \in ObjRefs : CallIDiv(r, NoneOperand)
    \/ \E k \in 1..Len(modes) : CallModeLen(modes[k])
    \/ \E k \in 1..Len(modes) : CallModeStr(modes[k])
    \/ \E k \in 1..Len(modes) : CallModeInt(modes[k])
    \/ \E k \in 1..Len(modes) : CallModeFloat(modes[k])
    \/ \E k \in 1..Len(modes) : CallModeIs3d(modes[k])
    \/ \E k \in 1..Len(modes) : CallModeNumAtoms(modes[k])
    \/ \E k \in 1..Len(modes) : CallModeGetArray(modes[k])
    \/ \E k \in 1..Len(modes) : CallModeGetEigval(modes[k])
    \/ \E k \in 1..Len(modes) : CallModeGetVariance(modes[k])
    \/ \E k \in 1..Len(vectors) : CallVecNumAtoms(vectors[k])
    \/ \E k \in 1..Len(vectors), t \in SetTitles : CallVecSetTitle(k, t)
    \/ \E k \in 1..Len(vectors) : CallVecGetArray(k)
    \/ \E h \in 1..Len(held), x \in Written : ModifyHeld(h, x)

Spec == Init /\ [][Next]_vars

-----------------------------------------------------------------------------
(* Vocabulary of the properties. *)

ArithOps == {"neg", "div", "mul", "rmul", "add", "radd", "sub", "rsub",
             "pow", "iadd", "isub", "imul", "idiv"}
InPlaceOps == {"iadd", "isub", "imul", "idiv"}
AddOps == {"add", "radd"}
SubOps == {"sub", "rsub"}
MulOps == {"mul", "rmul"}

IsMode(o) == o.t = "Mode"
IsVector(o) == o.t = "Vector"
\* The mode's index has a column in its model.
InRange(o) == IsMode(o) => o.index < Len(models[o.model].array)
Stale(o) == IsMode(o) /\ ~InRange(o)
\* The array and the length of an object.
ArrayOf(o) ==
    IF IsMode(o) THEN models[o.model].array[o.index + 1] ELSE o.array
LenOf(o) == IF IsMode(o) THEN models[o.model].dof ELSE Len(o.array)
FlagOf(o) == IF IsMode(o) THEN models[o.model].is3d ELSE o.is3d
Returned == last.kind \notin Errors
\* The vectors that exist: the kept ones and the one just returned.
Existing ==
    {vectors[k] : k \in 1..Len(vectors)}
        \cup (IF last.kind = "Vector" THEN {last.val} ELSE {})

-----------------------------------------------------------------------------
(* C1 *)

C1_NoModeReturned == last.op \in ArithOps => last.kind # "Mode"

C1_ModesAndModelsKept ==
    /\ models' = models
    /\ Len(modes') >= Len(modes)
    /\ \A k \in 1..Len(modes) : modes'[k] = modes[k]

\* C1: whatever arithmetic operators (negation, +, -, *, /, **, reflected
\* and in-place) are applied to Modes and Vectors, none returns a Mode, and
\* every step leaves each Mode's model and index and the models' eigenvector,
\* eigenvalue and variance arrays as they were.
C1_ArithmeticNeverTouchesModes ==
    [](C1_NoModeReturned) /\ [][C1_ModesAndModelsKept]_vars

\* An in-place operator on an in-range Mode returned a Vector.
C1_Witness ==
    /\ last.op \in InPlaceOps
    /\ IsMode(last.self) /\ InRange(last.self)
    /\ last.kind = "Vector"

-----------------------------------------------------------------------------
(* C2 *)

\* The left and right operand of the expression a call computes.
LeftOf(c) == IF c.op \in {"radd", "rsub", "rmul"} THEN c.other ELSE c.self
RightOf(c) == IF c.op \in {"radd", "rsub", "rmul"} THEN c.self ELSE c.other

C2_Sign == IF last.op \in AddOps THEN " + " ELSE " - "
C2_Array ==
    IF last.op \in AddOps
    THEN [i \in 1..LenOf(last.self) |->
             ArrayOf(LeftOf(last))[i] + ArrayOf(RightOf(last))[i]]
    ELSE [i \in 1..LenOf(last.self) |->
             ArrayOf(LeftOf(last))[i] - ArrayOf(RightOf(last))[i]]

C2_IsResult ==
    /\ last.kind = "Vector"
    /\ last.val.array = C2_Array
    /\ last.val.is3d = FlagOf(last.self)
    /\ last.val.title = "(" \o Str(LeftOf(last)) \o ")" \o C2_Sign
                            \o "(" \o Str(RightOf(last)) \o ")"

\* C2 as claimed: +, - and their reflected forms raise TypeError for an
\* operand that is no VectorBase, ValueError for operands of different
\* lengths, and otherwise return the Vector of the element-wise sum or
\* left-minus-right difference, with the 3-d flag of self and the title
\* '(<left>) + (<right>)' or '(<left>) - (<right>)'.
C2_AsClaimed ==
    last.op \in AddOps \cup SubOps =>
        IF ~IsVectorBase(last.other) THEN last.kind = "TypeError"
        ELSE IF LenOf(last.self) # LenOf(last.other)
        THEN last.kind = "ValueError"
        ELSE C2_IsResult

\* C2 amended: the same, the last case holding when every Mode operand has
\* an index within its model's mode count; with an out-of-range Mode among
\* equal-length operands the call raises IndexError.
C2_AddSubOutcome ==
    last.op \in AddOps \cup SubOps =>
        IF ~IsVectorBase(last.other) THEN last.kind = "TypeError"
        ELSE IF LenOf(last.self) # LenOf(last.other)
        THEN last.kind = "ValueError"
        ELSE IF Stale(last.self) \/ Stale(last.other)
        THEN last.kind = "IndexError"
        ELSE C2_IsResult

\* A reflected subtraction returned a Vector whose operands differ in
\* their 3-d flag.
C2_Witness ==
    /\ last.op = "rsub"
    /\ last.kind = "Vector"
    /\ FlagOf(last.self) # FlagOf(last.other)

-----------------------------------------------------------------------------
(* C3 *)

RECURSIVE SumProducts(_, _, _)
SumProducts(a, b, n) ==
    IF n = 0 THEN 0 ELSE SumProducts(a, b, n - 1) + a[n] * b[n]

C3_IsDot ==
    /\ last.kind = "scalar"
    /\ last.val = SumProducts(ArrayOf(last.self), ArrayOf(last.other),
                              LenOf(last.self))

C3_IsScaled ==
    /\ last.kind = "Vector"
    /\ last.val.array = [i \in 1..LenOf(last.self) |->
                             last.other.v * ArrayOf(last.self)[i]]
    /\ last.val.is3d = FlagOf(last.self)

\* C3 as claimed: A * x and the reflected form return the dot product when
\* x has the algebra interface, the Vector of x times A's array with A's
\* 3-d flag when x multiplies against the array, and raise TypeError
\* otherwise.
C3_AsClaimed ==
    last.op \in MulOps =>
        IF HasGetArray(last.other) THEN C3_IsDot
        ELSE IF IsScalar(last.other) /\ InRange(last.self) THEN C3_IsScaled
        ELSE last.kind = "TypeError"

\* C3 amended: the dot product is returned when x has the algebra
\* interface, the two arrays have the same length and every Mode operand
\* has an index within its model's mode count; the other two cases as
\* claimed.
C3_MulOutcome ==
    last.op \in MulOps =>
        IF HasGetArray(last.other)
        THEN (/\ InRange(last.self) /\ InRange(last.other)
              /\ LenOf(last.self) = LenOf(last.other)) => C3_IsDot
        ELSE IF IsScalar(last.other) /\ InRange(last.self) THEN C3_IsScaled
        ELSE last.kind = "TypeError"

\* c * A returned a Vector for a scalar c.
C3_Witness ==
    /\ last.op = "rmul"
    /\ IsScalar(last.other)
    /\ last.kind = "Vector"

-----------------------------------------------------------------------------
(* C4 *)

\* C4 as claimed: A ** e returns the Vector of the element-wise power, with
\* A's 3-d flag and the title '(<title>)**<e>', for a valid scalar e, and
\* raises TypeError for an invalid exponent.  (A is a Vector or a Mode with
\* an index in range.)
C4_AsClaimed ==
    (last.op = "pow" /\ InRange(last.self)) =>
        IF IsScalar(last.other)
        THEN /\ last.kind = "Vector"
             /\ last.val.array = [i \in 1..LenOf(last.self) |->
                                     IntPow(ArrayOf(last.self)[i], last.other.v)]
             /\ last.val.is3d = FlagOf(last.self)
             /\ last.val.title = "(" \o Str(last.self) \o ")**"
                                     \o ToString(last.other.v)
        ELSE last.kind = "TypeError"

-----------------------------------------------------------------------------
(* C5 *)

C5_Construction ==
    last.op = "Vector" =>
        IF last.other.array.ndim # 1 THEN last.kind = "ValueError"
        ELSE IF last.other.is3d /\ Len(last.other.array.data) % 3 # 0
        THEN last.kind = "ValueError"
        ELSE /\ last.kind = "Vector"
             /\ last.val.array = last.other.array.data
             /\ last.val.is3d = last.other.is3d

\* C5: Vector(...) raises ValueError for an array that is not 1-D and for
\* a 3-d flag with a length that is no multiple of 3, and succeeds
\* otherwise; and every Vector that exists, constructed or returned by an
\* operator, has a length that is a multiple of 3 when it is 3-d.
C5_ThreeDLengths ==
    /\ C5_Construction
    /\ \A v \in Existing : v.is3d => Len(v.array) % 3 = 0

\* A construction was refused for the 3-d flag alone.
C5_Witness ==
    /\ last.op = "Vector"
    /\ last.other.array.ndim = 1
    /\ last.kind = "ValueError"

-----------------------------------------------------------------------------
(* C6 *)

C6_Formula ==
    last.val = IF last.self.is3d
               THEN Len(last.self.array) \div 3 ELSE Len(last.self.array)

\* C6 as claimed: numAtoms() of a Vector is the length integer-divided by 3
\* when 3-d and the length otherwise; it is 3 for a 3-d vector of length 12
\* and 12 for a vector of length 12 that is not 3-d.
C6_AsClaimed ==
    (last.op = "numAtoms" /\ IsVector(last.self)) =>
        /\ C6_Formula
        /\ Len(last.self.array) = 12 =>
               last.val = IF last.self.is3d THEN 3 ELSE 12

\* C6 amended: the same, with 4 for the 3-d vector of length 12.
C6_NumAtoms ==
    (last.op = "numAtoms" /\ IsVector(last.self)) =>
        /\ C6_Formula
        /\ Len(last.self.array) = 12 =>
               last.val = IF last.self.is3d THEN 4 ELSE 12

\* numAtoms() was called on a 3-d vector of length 12.
C6_Witness ==
    /\ last.op = "numAtoms"
    /\ IsVector(last.self)
    /\ last.self.is3d
    /\ Len(last.self.array) = 12

-----------------------------------------------------------------------------
(* C7 *)

\* The operator an in-place operator stands for.
Counterpart(op, self, other) ==
    CASE op = "iadd" -> Add(self, other)
      [] op = "isub" -> Sub(self, other)
      [] op = "imul" -> Mul(self, other)
      [] op = "idiv" -> Div(self, other)

C7_InPlaceAsCounterpart ==
    (last.op \in InPlaceOps /\ IsVector(last.self)) =>
        /\ last.kind = Counterpart(last.op, last.self, last.other).kind
        /\ Returned =>
               last.val = Counterpart(last.op, last.self, last.other).val

\* A step keeps every kept vector's array and 3-d flag, and its title
\* unless the step is a setTitle, which sets one title to str(title).
C7_VectorsKept ==
    /\ Len(vectors') >= Len(vectors)
    /\ \A k \in 1..Len(vectors) :
          /\ vectors'[k].array = vectors[k].array
          /\ vectors'[k].is3d = vectors[k].is3d
          /\ last'.op # "setTitle" => vectors'[k].title = vectors[k].title
    /\ last'.op = "setTitle" =>
          \E k \in 1..Len(vectors) :
              vectors' = [vectors EXCEPT ![k].title = TitleStr(last'.other)]

\* C7 as claimed, its statement on what is returned: every arithmetic or
\* in-place operator on a Vector that returns, returns a Vector.
C7_AsClaimed ==
    (last.op \in ArithOps /\ IsVector(last.self) /\ Returned) =>
        last.kind = "Vector"

C7_ReturnsVectorOrDot ==
    (last.op \in ArithOps /\ IsVector(last.self) /\ Returned) =>
        \/ last.kind = "Vector"
        \/ /\ last.op \in {"mul", "rmul", "imul"}
           /\ HasGetArray(last.other)
           /\ last.kind = "scalar"

\* C7 amended: no step changes a Vector's array or 3-d flag: operators and
\* in-place operators leave their operands as they were and return what the
\* plain operator returns, which is a new Vector, or the scalar dot product
\* for * and *= with a Mode or Vector operand; writing into the array
\* getArray() returned leaves the Vector's array as it was; setTitle
\* changes the title alone, to str(title).
C7_VectorImmutable ==
    /\ [](C7_InPlaceAsCounterpart /\ C7_ReturnsVectorOrDot)
    /\ [][C7_VectorsKept]_vars

\* The caller wrote into the array getArray() gave it, and the vector still
\* has its own entry.
C7_Witness ==
    /\ last.op = "setitem"
    /\ Len(held) > 0
    /\ HeldData(held[1])[1] \in Written
    /\ vectors[held[1].vec].array[1] \notin Written

-----------------------------------------------------------------------------
(* C8 *)

Zeros(n) == [i \in 1..n |-> 0]

C8_Commutes(A, B) ==
    /\ Add(A, B).kind = "Vector"
    /\ Add(B, A).kind = "Vector"
    /\ Add(A, B).val.array = Add(B, A).val.array

C8_AddThenSub(A, B) ==
    /\ Add(A, B).kind = "Vector"
    /\ Sub(Add(A, B).val, B).kind = "Vector"
    /\ Sub(Add(A, B).val, B).val.array = ArrayOf(A)

C8_SelfDifference(M) ==
    /\ Sub(M, M).kind = "Vector"
    /\ Sub(M, M).val.array = Zeros(models[M.model].dof)

-----------------------------------------------------------------------------
(* C9 *)

IndexingOps == {"getArray", "getEigval", "getVariance", "float"}

C9_ConstructionUnchecked ==
    last.op = "Mode" =>
        /\ last.kind = "Mode"
        /\ last.val.model = last.other.model
        /\ last.val.index = last.other.index

C9_LazyFailure ==
    IsMode(last.self) =>
        /\ last.op = "int" => last.kind = "scalar" /\ last.val = last.self.index
        /\ (last.op \in IndexingOps /\ Stale(last.self)) =>
               last.kind = "IndexError"
        /\ (last.op \in IndexingOps /\ InRange(last.self)) => Returned
        /\ (last.op \in ArithOps /\ Stale(last.self)) => ~Returned
        /\ last.op = "len" => last.val = models[last.self.model].dof
        /\ last.op = "is3d" => last.val = models[last.self.model].is3d
        /\ last.op = "numAtoms" => last.val = models[last.self.model].natoms
        /\ last.op = "str" =>
               last.val = "Mode " \o ToString(last.self.index + 1)
                              \o " from " \o models[last.self.model].title

-----------------------------------------------------------------------------
(* C10 *)

\* C10 as claimed: * and reflected * between two operands with the algebra
\* interface whose arrays differ in length raise ValueError.
C10_AsClaimed ==
    (/\ last.op \in MulOps
     /\ HasGetArray(last.other)
     /\ InRange(last.self) /\ InRange(last.other)
     /\ Len(ArrayOf(last.self)) # Len(ArrayOf(last.other))) =>
        last.kind = "ValueError"

=============================================================================
